---- MODULE Spec2Model ----
(***************************************************************************)
(* FastBIDSDataset (MRdataset/fastbids.py): the walk over a directory      *)
(* tree, read_single's placement of a file in the Modality -> Subject ->   *)
(* Session -> Run hierarchy, and parse's parameter extraction and merge.   *)
(*                                                                         *)
(* Python objects are references; the hierarchy is modelled by value, as   *)
(* nested name-keyed maps, and every in-place mutation of a node that is   *)
(* already stored in its parent is written back into the parent.           *)
(*                                                                         *)
(* Parameter values are scalars; numbers are written in hundredths         *)
(* (0.03 is 3, 1.0 is 100, 2 is 200).                                      *)
(***************************************************************************)
EXTENDS Naturals, Sequences, FiniteSets

VARIABLES
    disk,                  \* the file tree under data_source: path -> content
    include_nifti_header,  \* self.include_nifti_header
    modalities,            \* self.modalities: modality name -> Modality
    pc,                    \* "idle", "walking", "returned", "raised"
    todo,                  \* files walk() has still to enumerate
    err,                   \* the exception the last operation raised, or "none"
    walks,                 \* walk() calls started so far
    snapshot,              \* how the first walk ended, and the hierarchy it left
    calls,                 \* direct read_single / parse calls made so far
    last                   \* the last read_single or parse call: operation, file, hierarchy before

vars == <<disk, include_nifti_header, modalities, pc, todo, err,
          walks, snapshot, calls, last>>

(***************************************************************************)
(* Bounds of the model.                                                    *)
(***************************************************************************)
MaxFiles == 2
MaxWalks == 2
MaxCalls == 3

(***************************************************************************)
(* Maps (Python dict).                                                     *)
(***************************************************************************)
EmptyMap == [k \in {} |-> 0]

\* dict.update: the entries of u are written over those of d
Update(d, u) ==
    [k \in (DOMAIN d) \cup (DOMAIN u) |-> IF k \in DOMAIN u THEN u[k] ELSE d[k]]

\* d[k] = v
Put(d, k, v) ==
    [x \in (DOMAIN d) \cup {k} |-> IF x = k THEN v ELSE d[x]]

(***************************************************************************)
(* Paths.  A path is its ancestor directory names, outermost first (the    *)
(* filesystem root has the empty name), and the file name as its           *)
(* dot-separated components: run-1.nii.gz is <<"run-1", "nii", "gz">>.     *)
(***************************************************************************)
MkPath(dirs, name) == [dirs |-> dirs, name |-> name]

\* pathlib's PurePath.stem: the file name without its last suffix
Stem(name) == IF Len(name) > 1 THEN SubSeq(name, 1, Len(name) - 1) ELSE name

\* path.parent / (path.stem + '.' + suffix...)
WithSuffix(path, suffix) == MkPath(path.dirs, Stem(path.name) \o suffix)

\* path.parents[i].name: parents[0] is the parent directory
AncestorName(path, i) == path.dirs[Len(path.dirs) - i]

\* the extension of a file name; .nii.gz is one extension
get_ext(path) ==
    LET n == path.name IN
    IF Len(n) >= 3 /\ SubSeq(n, Len(n) - 1, Len(n)) = <<"nii", "gz">>
    THEN <<"nii", "gz">>
    ELSE IF Len(n) >= 2 THEN <<n[Len(n)]>> ELSE << >>

VALID_BIDS_EXTENSIONS == {<<"json">>, <<"nii">>, <<"nii", "gz">>}

(***************************************************************************)
(* The file trees considered.                                              *)
(***************************************************************************)
Root == <<"", "ds">>

BaseDir == Root \o <<"sub-01", "ses-01", "anat">>

DeepDirs ==
    { BaseDir,
      Root \o <<"sub-01", "ses-02", "anat">>,
      Root \o <<"sub-02", "ses-01", "anat">>,
      Root \o <<"sub-01", "ses-01", "func">>,
      Root \o <<"derivatives", "sub-01", "ses-01", "anat">> }

SidecarPaths ==
    { MkPath(d, <<"run-1", "json">>) : d \in DeepDirs }
        \cup { MkPath(BaseDir, <<"run-2", "json">>) }

HeaderPaths ==
    { MkPath(BaseDir, <<"run-1", "nii">>), MkPath(BaseDir, <<"run-1", "nii", "gz">>) }

\* files whose content is never read: too shallow, or not in the allow-list
OtherPaths ==
    { MkPath(Root, <<"dataset_description", "json">>),
      MkPath(BaseDir, <<"notes", "txt">>) }

Paths == SidecarPaths \cup HeaderPaths \cup OtherPaths

\* the trees of the specification of direct calls
CallPaths ==
    { MkPath(BaseDir, <<"run-1", "json">>),
      MkPath(BaseDir, <<"run-2", "json">>),
      MkPath(Root \o <<"derivatives", "sub-01", "ses-01", "anat">>, <<"run-1", "json">>),
      MkPath(Root \o <<"sub-01", "ses-02", "anat">>, <<"run-1", "json">>),
      MkPath(Root, <<"dataset_description", "json">>) }

\* the trees of the header specification: image files beside the sidecars
HeaderTreePaths ==
    { MkPath(BaseDir, <<"run-1", "json">>),
      MkPath(BaseDir, <<"run-2", "json">>),
      MkPath(Root \o <<"sub-01", "ses-02", "anat">>, <<"run-1", "json">>),
      MkPath(BaseDir, <<"notes", "txt">>) }
        \cup HeaderPaths

Keys == {"EchoTime", "RepetitionTime"}
Values == {3, 200, 300}
ValuesOf(k) == IF k = "EchoTime" THEN {3} ELSE {200, 300}

Mappings ==
    UNION { { m \in [ks -> Values] : \A k \in ks : m[k] \in ValuesOf(k) } :
            ks \in SUBSET Keys }

\* a file's content: a document holding a mapping, or one that does not parse
Document(m) == [ok |-> TRUE, params |-> m]
Malformed == [ok |-> FALSE, params |-> EmptyMap]

\* the contents a file may have; a file that is never read has one
ContentsOf(p, headersRead) ==
    IF p \in SidecarPaths THEN { Document(m) : m \in Mappings } \cup {Malformed}
    ELSE IF p \in HeaderPaths /\ headersRead THEN { Document(m) : m \in Mappings }
    ELSE {Document(EmptyMap)}

AllContents == { Document(m) : m \in Mappings } \cup {Malformed}

\* the trees of at most MaxFiles files among the given paths
Disks(paths, headersRead) ==
    UNION { { d \in [ps -> AllContents] :
                \A p \in ps : d[p] \in ContentsOf(p, headersRead) } :
            ps \in { s \in SUBSET paths : Cardinality(s) <= MaxFiles } }

(***************************************************************************)
(* The hierarchy (MRdataset.base): each node holds its name and a          *)
(* collection of children keyed by unique name.                            *)
(***************************************************************************)
Modality(name) == [name |-> name, subjects |-> EmptyMap]
Subject(name) == [name |-> name, sessions |-> EmptyMap]
Session(name) == [name |-> name, runs |-> EmptyMap]

DefaultEchoTime == 100

Run(name) == [name |-> name, params |-> EmptyMap, echo_time |-> DefaultEchoTime]

\* get_*_by_name: the child of that name, when there is one
HasChild(children, name) == name \in DOMAIN children

\* add_modality, add_subject, add_session, add_run: the node is stored in
\* the parent's collection under its name
add_modality(mods, modality_obj) == Put(mods, modality_obj.name, modality_obj)

add_subject(modality_obj, subject_obj) ==
    [modality_obj EXCEPT !.subjects = Put(@, subject_obj.name, subject_obj)]

add_session(subject_obj, session_node) ==
    [subject_obj EXCEPT !.sessions = Put(@, session_node.name, session_node)]

add_run(session_node, run_node) ==
    [session_node EXCEPT !.runs = Put(@, run_node.name, run_node)]

(***************************************************************************)
(* parse (fastbids.py 84-125).                                             *)
(***************************************************************************)
is_file(path) == path \in DOMAIN disk

\* select_parameters: the mapping a document holds; a malformed one raises
select_parameters(path) == disk[path].params

SelectRaises(path) == ~disk[path].ok

\* the three places parse looks at, each derived from the one before
SidecarPath(filepath) == WithSuffix(filepath, <<"json">>)
NiiPath(filepath) == WithSuffix(SidecarPath(filepath), <<"nii">>)
NiiGzPath(filepath) == WithSuffix(NiiPath(filepath), <<"nii", "gz">>)

\* one extraction stage: params.update(select_parameters(path)) if the file exists
Stage(params, path) ==
    IF is_file(path) THEN Update(params, select_parameters(path)) ELSE params

FromSidecar(filepath) == Stage(EmptyMap, SidecarPath(filepath))

FromHeaders_GzFirst(params, filepath) ==
    IF include_nifti_header
    THEN Stage(Stage(params, NiiGzPath(filepath)), NiiPath(filepath))
    ELSE params

FromHeaders(params, filepath) ==
    IF include_nifti_header
    THEN Stage(Stage(params, NiiPath(filepath)), NiiGzPath(filepath))
    ELSE params

params_from_file(filepath) == FromHeaders(FromSidecar(filepath), filepath)

\* a stage that reads a malformed document raises out of parse
ParseRaises(filepath) ==
    \/ is_file(SidecarPath(filepath)) /\ SelectRaises(SidecarPath(filepath))
    \/ /\ include_nifti_header
       /\ \/ is_file(NiiPath(filepath)) /\ SelectRaises(NiiPath(filepath))
          \/ is_file(NiiGzPath(filepath)) /\ SelectRaises(NiiGzPath(filepath))

\* run_node.echo_time = params_from_file.get('EchoTime', 1.0)
EchoTimeOf(params) ==
    IF "EchoTime" \in DOMAIN params THEN params["EchoTime"] ELSE DefaultEchoTime

\* a slip: the lookup's answer is ignored and a new Run made every time
RunIsNew_Always(session_node, filename) == TRUE

\* lines 118-119: run_node is None, the session has no run of that name
RunIsNew(session_node, filename) == ~HasChild(session_node.runs, filename)

\* lines 118-124: the run of that name, found or made, takes the parameters
MergeRun(session_node, filename, params) ==
    LET run_node == IF RunIsNew(session_node, filename)
                    THEN Run(filename)
                    ELSE session_node.runs[filename]
    IN add_run(session_node,
               [run_node EXCEPT !.params = Update(@, params),
                                !.echo_time = EchoTimeOf(params)])

parse(session_node, filepath) ==
    LET filename == Stem(filepath.name)
        params == params_from_file(filepath)
    IN IF params # EmptyMap
       THEN MergeRun(session_node, filename, params)
       ELSE session_node

(***************************************************************************)
(* read_single (fastbids.py 62-82).                                        *)
(***************************************************************************)
\* a node that was found in its parent is the stored node itself: what was
\* done to it shows in the parent
WriteBack(children, found, node) ==
    IF found THEN Put(children, node.name, node) ELSE children

\* a slip: the session is attached without the check that it has runs
CommitSession_Unguarded(subject_obj, session_node) ==
    add_session(subject_obj, session_node)

\* a slip: attaching a session drops the sessions the subject already had
CommitSession_Replacing(subject_obj, session_node) ==
    IF session_node.runs # EmptyMap
    THEN [subject_obj EXCEPT
            !.sessions = Put(EmptyMap, session_node.name, session_node)]
    ELSE subject_obj

\* if session_node.runs: subject_obj.add_session(session_node)
CommitSession(subject_obj, session_node) ==
    IF session_node.runs # EmptyMap
    THEN add_session(subject_obj, session_node)
    ELSE subject_obj

\* if subject_obj.sessions: modality_obj.add_subject(subject_obj)
CommitSubject(modality_obj, subject_obj) ==
    IF subject_obj.sessions # EmptyMap
    THEN add_subject(modality_obj, subject_obj)
    ELSE modality_obj

\* a slip: the modality is attached without the check that it has subjects
CommitModality_Unguarded(mods, modality_obj) == add_modality(mods, modality_obj)

\* if modality_obj.subjects: self.add_modality(modality_obj)
CommitModality(mods, modality_obj) ==
    IF modality_obj.subjects # EmptyMap
    THEN add_modality(mods, modality_obj)
    ELSE mods

\* file.parents[2] exists
DeepEnough(file) == Len(file.dirs) >= 3

\* slips: an ancestor index off by one
ModalityOf_Grandparent(file) == AncestorName(file, 1)
SessionOf_Subject(file) == AncestorName(file, 2)

\* the names read_single takes from the path
ModalityOf(file) == AncestorName(file, 0)
SubjectOf(file) == AncestorName(file, 2)
SessionOf(file) == AncestorName(file, 1)

\* a slip: the lookup's answer is ignored and a new Session made every time
SessionIsNew_Always(subject_obj, nSess) == TRUE

\* line 73: the session is parsed into only when the subject had none of that name
SessionIsNew(subject_obj, nSess) == ~HasChild(subject_obj.sessions, nSess)

\* the hierarchy after read_single(file) returns
Place(mods, file) ==
    LET datatype == ModalityOf(file)
        modFound == HasChild(mods, datatype)
        modality_obj == IF modFound THEN mods[datatype] ELSE Modality(datatype)
        nSub == SubjectOf(file)
        subFound == HasChild(modality_obj.subjects, nSub)
        subject_obj == IF subFound THEN modality_obj.subjects[nSub] ELSE Subject(nSub)
        nSess == SessionOf(file)
        session_node == parse(Session(nSess), file)
        subject1 == CommitSession(subject_obj, session_node)
        modality0 == [modality_obj EXCEPT
                        !.subjects = WriteBack(@, subFound, subject1)]
        modality1 == IF SessionIsNew(subject_obj, nSess)
                     THEN CommitSubject(modality0, subject1)
                     ELSE modality_obj
    IN CommitModality(WriteBack(mods, modFound, modality1), modality1)

\* what read_single(file) raises
ReadSingleRaises(mods, file) ==
    IF ~DeepEnough(file) THEN "IndexError"
    ELSE LET datatype == ModalityOf(file)
             modality_obj == IF HasChild(mods, datatype)
                             THEN mods[datatype] ELSE Modality(datatype)
             nSub == SubjectOf(file)
             subject_obj == IF HasChild(modality_obj.subjects, nSub)
                            THEN modality_obj.subjects[nSub] ELSE Subject(nSub)
         IN IF SessionIsNew(subject_obj, SessionOf(file)) /\ ParseRaises(file)
            THEN "ContentError"
            ELSE "none"

read_single_AttachFirst(mods, file) ==
    LET raised == ReadSingleRaises(mods, file)
    IN [err |-> raised,
        modalities |->
            IF raised = "none" THEN Place(mods, file)
            ELSE IF raised = "IndexError" /\ ~HasChild(mods, AncestorName(file, 0))
                 THEN add_modality(mods, Modality(AncestorName(file, 0)))
                 ELSE mods]

read_single(mods, file) ==
    LET raised == ReadSingleRaises(mods, file)
    IN [err |-> raised,
        modalities |-> IF raised = "none" THEN Place(mods, file) ELSE mods]

(***************************************************************************)
(* walk (fastbids.py 48-60).                                               *)
(***************************************************************************)
\* files_under_folder(self.data_source): every file of the tree
files_under_folder == DOMAIN disk

\* ext in VALID_BIDS_EXTENSIONS
Accepted(file) == get_ext(file) \in VALID_BIDS_EXTENSIONS

\* a slip: the empty-result check is left out
WalkError_Never(mods) == "none"

\* if not self.modalities: raise ValueError
WalkError(mods) == IF mods = EmptyMap THEN "ValueError" ELSE "none"

NoCall == [op |-> "none", file |-> MkPath(<< >>, << >>), before |-> EmptyMap]
NoSnapshot == [err |-> "pending", modalities |-> EmptyMap]

Snap(e, mods) == IF walks = 1 THEN [err |-> e, modalities |-> mods] ELSE snapshot

\* the object after __init__, over one of the given trees
Constructed(paths, flags) ==
    /\ include_nifti_header \in flags
    /\ disk \in Disks(paths, include_nifti_header)
    /\ modalities = EmptyMap
    /\ pc = "idle"
    /\ todo = {}
    /\ err = "none"
    /\ walks = 0
    /\ snapshot = NoSnapshot
    /\ calls = 0
    /\ last = NoCall

\* include_nifti_header is left at its default
Init == Constructed(Paths, {FALSE})

\* header inspection on or off, over the trees of one directory
InitHeaders == Constructed(HeaderTreePaths, BOOLEAN)

\* walk() is called: the files are enumerated, in an order the caller does not choose
WalkBegin ==
    /\ pc \in {"idle", "returned", "raised"}
    /\ walks < MaxWalks
    /\ pc' = "walking"
    /\ todo' = files_under_folder
    /\ err' = "none"
    /\ walks' = walks + 1
    /\ last' = NoCall
    /\ UNCHANGED <<disk, include_nifti_header, modalities, snapshot, calls>>

\* one turn of the loop on a file outside the allow-list
WalkSkip(file) ==
    /\ pc = "walking"
    /\ file \in todo
    /\ ~Accepted(file)
    /\ todo' = todo \ {file}
    /\ UNCHANGED <<disk, include_nifti_header, modalities, pc, err,
                   walks, snapshot, calls, last>>

\* one turn of the loop on an accepted file: read_single returns or raises
WalkReadSingle(file) ==
    /\ pc = "walking"
    /\ file \in todo
    /\ Accepted(file)
    /\ LET r == read_single(modalities, file)
       IN /\ modalities' = r.modalities
          /\ err' = r.err
          /\ pc' = IF r.err = "none" THEN "walking" ELSE "raised"
          /\ snapshot' = IF r.err = "none" THEN snapshot ELSE Snap(r.err, r.modalities)
    /\ todo' = todo \ {file}
    /\ last' = [op |-> "read_single", file |-> file, before |-> modalities]
    /\ UNCHANGED <<disk, include_nifti_header, walks, calls>>

\* the loop is over: the empty-result check
WalkEnd ==
    /\ pc = "walking"
    /\ todo = {}
    /\ err' = WalkError(modalities)
    /\ pc' = IF WalkError(modalities) = "none" THEN "returned" ELSE "raised"
    /\ snapshot' = Snap(WalkError(modalities), modalities)
    /\ UNCHANGED <<disk, include_nifti_header, modalities, todo,
                   walks, calls, last>>

Next ==
    \/ WalkBegin
    \/ \E file \in Paths : WalkSkip(file)
    \/ \E file \in Paths : WalkReadSingle(file)
    \/ WalkEnd

Spec == Init /\ [][Next]_vars

SpecHeaders == InitHeaders /\ [][Next]_vars

(***************************************************************************)
(* read_single and parse called directly, in any sequence.                 *)
(***************************************************************************)
InitCalls == Constructed(CallPaths, {FALSE})

\* self.read_single(file)
CallReadSingle(file) ==
    /\ pc = "idle"
    /\ calls < MaxCalls
    /\ file \in files_under_folder
    /\ Accepted(file)
    /\ LET r == read_single(modalities, file)
       IN /\ modalities' = r.modalities
          /\ err' = r.err
    /\ calls' = calls + 1
    /\ last' = [op |-> "read_single", file |-> file, before |-> modalities]
    /\ UNCHANGED <<disk, include_nifti_header, pc, todo, walks, snapshot>>

\* the session of the hierarchy a file's path names, when it is stored there
HasSession(mods, file) ==
    /\ DeepEnough(file)
    /\ HasChild(mods, ModalityOf(file))
    /\ HasChild(mods[ModalityOf(file)].subjects, SubjectOf(file))
    /\ HasChild(mods[ModalityOf(file)].subjects[SubjectOf(file)].sessions,
                SessionOf(file))

SessionAt(mods, file) ==
    mods[ModalityOf(file)].subjects[SubjectOf(file)].sessions[SessionOf(file)]

\* self.parse(session_node, file) on the stored session of the file's path:
\* parse works on the stored node, so the hierarchy shows what it did
CallParse(file) ==
    /\ pc = "idle"
    /\ calls < MaxCalls
    /\ file \in files_under_folder
    /\ Accepted(file)
    /\ HasSession(modalities, file)
    /\ IF ParseRaises(file)
       THEN /\ err' = "ContentError"
            /\ UNCHANGED modalities
       ELSE /\ err' = "none"
            /\ modalities' =
                 [modalities EXCEPT
                    ![ModalityOf(file)].subjects[SubjectOf(file)].sessions[SessionOf(file)] =
                        parse(@, file)]
    /\ calls' = calls + 1
    /\ last' = [op |-> "parse", file |-> file, before |-> modalities]
    /\ UNCHANGED <<disk, include_nifti_header, pc, todo, walks, snapshot>>

NextCalls ==
    \/ \E file \in Paths : CallReadSingle(file)
    \/ \E file \in Paths : CallParse(file)

SpecCalls == InitCalls /\ [][NextCalls]_vars

(***************************************************************************)
(* What the properties speak of.                                           *)
(***************************************************************************)
\* the place a file's location implies: the modality is the parent
\* directory's name, the session the name of the directory two levels above
\* the file, the subject the name of the directory three levels above, the
\* run the file's base name without its extension
ImpliedModality(file) == file.dirs[Len(file.dirs)]
ImpliedSession(file) == file.dirs[Len(file.dirs) - 1]
ImpliedSubject(file) == file.dirs[Len(file.dirs) - 2]
ImpliedRun(file) == SubSeq(file.name, 1, Len(file.name) - Len(get_ext(file)))

\* the hierarchy holds a Run at modality m, subject s, session e, name r
RunIn(mods, m, s, e, r) ==
    /\ m \in DOMAIN mods
    /\ s \in DOMAIN mods[m].subjects
    /\ e \in DOMAIN mods[m].subjects[s].sessions
    /\ r \in DOMAIN mods[m].subjects[s].sessions[e].runs

HasRun(mods, file) ==
    /\ Len(file.dirs) >= 3
    /\ RunIn(mods, ImpliedModality(file), ImpliedSubject(file),
             ImpliedSession(file), ImpliedRun(file))

RunAt(mods, file) ==
    mods[ImpliedModality(file)].subjects[ImpliedSubject(file)]
        .sessions[ImpliedSession(file)].runs[ImpliedRun(file)]

\* two files imply the same Run
SameRun(f, g) ==
    /\ ImpliedModality(f) = ImpliedModality(g)
    /\ ImpliedSubject(f) = ImpliedSubject(g)
    /\ ImpliedSession(f) = ImpliedSession(g)
    /\ ImpliedRun(f) = ImpliedRun(g)

\* an accepted file read_single can place, whose extraction yields a mapping
Extractable(file) ==
    /\ file \in files_under_folder
    /\ Accepted(file)
    /\ DeepEnough(file)
    /\ ~ParseRaises(file)

NonEmptyExtraction(file) == Extractable(file) /\ params_from_file(file) # EmptyMap

\* m holds every entry of sub
Contains(m, sub) == \A k \in DOMAIN sub : k \in DOMAIN m /\ m[k] = sub[k]

\* the files the current walk has enumerated
Reached == IF walks >= 1 THEN files_under_folder \ todo ELSE {}

\* the last step was a read_single that returned
ReadSingleReturned ==
    last.op = "read_single" /\ err = "none" /\ pc \in {"idle", "walking"}

\* no node of the hierarchy is without children
NonEmptyBranches(mods) ==
    \A m \in DOMAIN mods :
        /\ mods[m].subjects # EmptyMap
        /\ \A s \in DOMAIN mods[m].subjects :
            /\ mods[m].subjects[s].sessions # EmptyMap
            /\ \A e \in DOMAIN mods[m].subjects[s].sessions :
                mods[m].subjects[s].sessions[e].runs # EmptyMap

\* a lookup that contributes nothing: no file, or a document with no entry
NothingAt(path) == is_file(path) => disk[path] = Document(EmptyMap)

ContributesNothing(file) ==
    /\ NothingAt(SidecarPath(file))
    /\ include_nifti_header =>
         NothingAt(NiiPath(file)) /\ NothingAt(NiiGzPath(file))

\* C1: after walk() completes without error, every accepted file with a
\* non-empty extraction has its Run at the path its location implies, and the
\* Run's params hold the whole extracted mapping.
C1_EveryFileHasItsRun ==
    pc = "returned" =>
        \A file \in files_under_folder :
            NonEmptyExtraction(file) =>
                /\ HasRun(modalities, file)
                /\ Contains(RunAt(modalities, file).params, params_from_file(file))

\* C2: merge law, one read_single at a time: when read_single returns for a
\* file with a non-empty extraction whose Run was already in the hierarchy,
\* that Run's params are the earlier params with the file's mapping written
\* over them (the union, the later file's value on every shared key).
C2_MergeLaw ==
    ( /\ ReadSingleReturned
      /\ NonEmptyExtraction(last.file)
      /\ HasRun(last.before, last.file) )
    => /\ HasRun(modalities, last.file)
       /\ RunAt(modalities, last.file).params =
            Update(RunAt(last.before, last.file).params, params_from_file(last.file))

\* C3: after every read_single, every Modality of the Dataset has a Subject,
\* every Subject a Session and every Session a Run.
C3_NonEmptyBranches == NonEmptyBranches(modalities)

\* C3's case: read_single has returned for a file that yielded nothing,
\* beside a hierarchy that holds nodes
C3_Witness ==
    /\ ReadSingleReturned
    /\ Extractable(last.file)
    /\ params_from_file(last.file) = EmptyMap
    /\ modalities # EmptyMap

\* the first walk over the tree is over: it returned, or raised
FirstWalkOver == walks = 1 /\ pc \in {"returned", "raised"}

\* C4 as stated: the first walk raises the empty-result error exactly when no
\* accepted file produced a non-empty extraction.
C4_ValueErrorIffNothingExtracted ==
    FirstWalkOver =>
        (err = "ValueError" <=>
            ~\E file \in files_under_folder : NonEmptyExtraction(file))

\* C4, amended: a first walk that no file's path or content aborted raises
\* the empty-result error exactly when no accepted file produced a
\* non-empty extraction.
C4_ValueErrorIffNothingExtractedUnlessAborted ==
    (FirstWalkOver /\ err \notin {"IndexError", "ContentError"}) =>
        (err = "ValueError" <=>
            ~\E file \in files_under_folder : NonEmptyExtraction(file))

\* C4's cases: the error is raised over a tree of accepted files that all
\* yield nothing; it is not raised where such a file was read before the one
\* that yields a mapping
C4_WitnessRaised ==
    /\ FirstWalkOver
    /\ err = "ValueError"
    /\ \E file \in files_under_folder : Accepted(file)

C4_Witness ==
    /\ FirstWalkOver
    /\ err = "none"
    /\ NonEmptyExtraction(last.file)
    /\ \E file \in files_under_folder :
         Extractable(file) /\ params_from_file(file) = EmptyMap

\* C5: once a first walk has returned, a further walk over the same tree
\* leaves the hierarchy, with every Run's params and echo_time, as the first
\* walk left it, at every step, and raises nothing.
C5_SecondWalkChangesNothing ==
    (walks >= 2 /\ snapshot.err = "none") =>
        /\ modalities = snapshot.modalities
        /\ err = "none"

\* C5's case: the second walk has returned, over a tree where two accepted
\* files yield mappings
C5_Witness ==
    /\ walks = 2
    /\ pc = "returned"
    /\ snapshot.err = "none"
    /\ \E f, g \in files_under_folder :
         f # g /\ NonEmptyExtraction(f) /\ NonEmptyExtraction(g)

\* C6: read_single of a file whose sidecar lookup and, with header inspection
\* on, both header lookups contribute nothing leaves the hierarchy as it was.
C6_NothingExtractedNothingChanged ==
    ( /\ ReadSingleReturned
      /\ DeepEnough(last.file)
      /\ ContributesNothing(last.file) )
    => modalities = last.before

\* C6's case: with header inspection on, read_single has returned for a file
\* whose image header exists and holds nothing, beside a stored hierarchy
C6_Witness ==
    /\ ReadSingleReturned
    /\ DeepEnough(last.file)
    /\ ContributesNothing(last.file)
    /\ include_nifti_header
    /\ is_file(NiiPath(last.file))
    /\ modalities # EmptyMap

\* every node is stored under its own name
NamedByKey(mods) ==
    \A m \in DOMAIN mods :
        /\ mods[m].name = m
        /\ \A s \in DOMAIN mods[m].subjects :
            /\ mods[m].subjects[s].name = s
            /\ \A e \in DOMAIN mods[m].subjects[s].sessions :
                /\ mods[m].subjects[s].sessions[e].name = e
                /\ \A r \in DOMAIN mods[m].subjects[s].sessions[e].runs :
                     mods[m].subjects[s].sessions[e].runs[r].name = r

\* the accepted files with a non-empty extraction whose location implies
\* the Run at m, s, e, r
SourcesOf(m, s, e, r) ==
    { file \in files_under_folder :
        /\ NonEmptyExtraction(file)
        /\ ImpliedModality(file) = m
        /\ ImpliedSubject(file) = s
        /\ ImpliedSession(file) = e
        /\ ImpliedRun(file) = r }

\* every Run has a source, and every entry of its params comes from one
Exact(mods) ==
    \A m \in DOMAIN mods :
      \A s \in DOMAIN mods[m].subjects :
        \A e \in DOMAIN mods[m].subjects[s].sessions :
          \A r \in DOMAIN mods[m].subjects[s].sessions[e].runs :
            LET run == mods[m].subjects[s].sessions[e].runs[r]
            IN /\ SourcesOf(m, s, e, r) # {}
               /\ \A k \in DOMAIN run.params :
                    \E file \in SourcesOf(m, s, e, r) :
                        /\ k \in DOMAIN params_from_file(file)
                        /\ params_from_file(file)[k] = run.params[k]

\* the tree ds/sub-01/ses-01/anat/run-1.json holding {"EchoTime": 0.03}
ExampleTree ==
    [p \in {MkPath(BaseDir, <<"run-1", "json">>)} |->
        Document([k \in {"EchoTime"} |-> 3])]

\* one Modality anat, one Subject sub-01, one Session ses-01, one Run run-1
\* with params[EchoTime] = 0.03 and echo_time = 0.03
ExampleCatalog ==
    [m \in {"anat"} |-> [name |-> "anat", subjects |->
      [s \in {"sub-01"} |-> [name |-> "sub-01", sessions |->
        [e \in {"ses-01"} |-> [name |-> "ses-01", runs |->
          [r \in {<<"run-1">>} |->
            [name |-> <<"run-1">>,
             params |-> [k \in {"EchoTime"} |-> 3],
             echo_time |-> 3]]]]]]]]

\* C7: every Run of the Dataset sits where an accepted file with a non-empty
\* extraction implies, under its own name, and every entry of its params was
\* extracted for a file implying that Run; over the tree of the single file
\* sub-01/ses-01/anat/run-1.json with {EchoTime: 0.03} the walk leaves
\* exactly anat / sub-01 / ses-01 / run-1 with EchoTime and echo_time 0.03.
C7_Exactness ==
    /\ NamedByKey(modalities)
    /\ Exact(modalities)
    /\ NonEmptyBranches(modalities)
    /\ (disk = ExampleTree /\ pc = "returned") => modalities = ExampleCatalog

\* C7's cases: the walk over the example tree has returned; a walk has
\* returned over a tree that also holds a file outside the allow-list
C7_Witness ==
    /\ disk = ExampleTree
    /\ pc = "returned"
    /\ modalities # EmptyMap

C7_WitnessIgnored ==
    /\ pc = "returned"
    /\ \E file \in files_under_folder : ~Accepted(file)

\* two files that share modality, subject and run base name and lie in
\* different session directories
SessionsApart(f, g) ==
    /\ ImpliedModality(f) = ImpliedModality(g)
    /\ ImpliedSubject(f) = ImpliedSubject(g)
    /\ ImpliedRun(f) = ImpliedRun(g)
    /\ ImpliedSession(f) # ImpliedSession(g)

\* the tree's accepted files are f and g, each with a non-empty extraction
OnlyAccepted(f, g) ==
    /\ NonEmptyExtraction(f)
    /\ NonEmptyExtraction(g)
    /\ \A file \in files_under_folder : Accepted(file) => file \in {f, g}

\* the Session a file's location implies holds one Run, the file's, whose
\* params are the file's extracted mapping and nothing else
OwnRunOnly(mods, file) ==
    /\ HasRun(mods, file)
    /\ LET session ==
             mods[ImpliedModality(file)].subjects[ImpliedSubject(file)]
                 .sessions[ImpliedSession(file)]
       IN /\ DOMAIN session.runs = {ImpliedRun(file)}
          /\ session.runs[ImpliedRun(file)].params = params_from_file(file)

\* C8: a walk over two accepted files with non-empty extractions that differ
\* only in their session directory leaves one Modality with one Subject with
\* the two Sessions, each holding its own Run with exactly its file's mapping,
\* whichever file was read first.
C8_SessionsKeptApart ==
    \A f, g \in files_under_folder :
        (pc = "returned" /\ SessionsApart(f, g) /\ OnlyAccepted(f, g)) =>
            /\ DOMAIN modalities = {ImpliedModality(f)}
            /\ DOMAIN modalities[ImpliedModality(f)].subjects = {ImpliedSubject(f)}
            /\ DOMAIN modalities[ImpliedModality(f)].subjects[ImpliedSubject(f)].sessions
                 = {ImpliedSession(f), ImpliedSession(g)}
            /\ OwnRunOnly(modalities, f)
            /\ OwnRunOnly(modalities, g)

\* C8's case: the walk has returned over run-1.json in ses-01 and in ses-02
\* holding different values of one parameter, the ses-02 file read last
C8_Witness ==
    \E f, g \in files_under_folder :
        /\ pc = "returned"
        /\ walks = 1
        /\ SessionsApart(f, g)
        /\ OnlyAccepted(f, g)
        /\ params_from_file(f) = [k \in {"RepetitionTime"} |-> 200]
        /\ params_from_file(g) = [k \in {"RepetitionTime"} |-> 300]
        /\ last.file = g

\* C9: every Run's echo_time is the EchoTime entry of its params when an
\* extraction has supplied one, and 1.0 when none has.
C9_EchoTimeFollowsParams ==
    \A m \in DOMAIN modalities :
      \A s \in DOMAIN modalities[m].subjects :
        \A e \in DOMAIN modalities[m].subjects[s].sessions :
          \A r \in DOMAIN modalities[m].subjects[s].sessions[e].runs :
            LET run == modalities[m].subjects[s].sessions[e].runs[r]
            IN run.echo_time =
                 IF "EchoTime" \in DOMAIN run.params
                 THEN run.params["EchoTime"]
                 ELSE 100

\* the sidecar document parse would read for the file is malformed
MalformedSidecar(file) ==
    /\ SidecarPath(file) \in DOMAIN disk
    /\ disk[SidecarPath(file)] = Malformed

\* C10: once the walk has reached an accepted file whose sidecar document is
\* malformed, the walk has raised the content error at that file: it was not
\* passed over and no file was read after it.
C10_MalformedSidecarAborts ==
    \A file \in Reached :
        (Accepted(file) /\ DeepEnough(file) /\ MalformedSidecar(file)) =>
            /\ pc = "raised"
            /\ err = "ContentError"
            /\ last.file = file

(***************************************************************************)
(* Parameter extraction, read off the disk stage by stage.                 *)
(***************************************************************************)
\* the base name of a file: its name without the last suffix
BaseName(file) == SubSeq(file.name, 1, Len(file.name) - 1)

\* the file beside `file` that has its base name and the given extension
Beside(file, extension) == MkPath(file.dirs, BaseName(file) \o extension)

\* what one stage contributes: the document's mapping, nothing if no file
Contribution(path) ==
    IF path \in DOMAIN disk THEN disk[path].params ELSE EmptyMap

\* the later mapping wins where both have a key
Overwrite(earlier, later) ==
    [k \in (DOMAIN earlier) \cup (DOMAIN later) |->
        IF k \in DOMAIN later THEN later[k] ELSE earlier[k]]

CombinedMapping(file) ==
    IF include_nifti_header
    THEN Overwrite(Overwrite(Contribution(Beside(file, <<"json">>)),
                             Contribution(Beside(file, <<"nii">>))),
                   Contribution(Beside(file, <<"nii", "gz">>)))
    ELSE Contribution(Beside(file, <<"json">>))

\* the three stage files of `file` that exist
StageFiles(file) ==
    {Beside(file, e) : e \in {<<"json">>, <<"nii">>, <<"nii", "gz">>}}
        \cap DOMAIN disk

SessionIn(mods, file) ==
    /\ Len(file.dirs) >= 3
    /\ ImpliedModality(file) \in DOMAIN mods
    /\ ImpliedSubject(file) \in DOMAIN mods[ImpliedModality(file)].subjects
    /\ ImpliedSession(file) \in
           DOMAIN mods[ImpliedModality(file)].subjects[ImpliedSubject(file)]
                      .sessions

RunsIn(mods, file) ==
    mods[ImpliedModality(file)].subjects[ImpliedSubject(file)]
        .sessions[ImpliedSession(file)].runs

\* the last step was a read_single that had to parse: the file's session was
\* not stored before it
ParsedLast ==
    /\ last.op = "read_single"
    /\ Len(last.file.dirs) >= 3
    /\ ~SessionIn(last.before, last.file)

\* C11: the mapping parse extracts for a file is the sidecar's, overwritten
\* by the .nii header's, overwritten by the .nii.gz header's, each taken at
\* the file's base name and only if it exists, and the sidecar's alone when
\* include_nifti_header is false.  A read_single that parsed and returned
\* stored exactly that mapping in the run of that base name (and stored no
\* session when the mapping is empty); one that raised the content error
\* read an existing malformed document, never a missing one.
C11_CombinedMapping ==
    /\ \A file \in DOMAIN disk :
           Accepted(file) => params_from_file(file) = CombinedMapping(file)
    /\ (ParsedLast /\ ReadSingleReturned) =>
           IF CombinedMapping(last.file) = EmptyMap
           THEN ~SessionIn(modalities, last.file)
           ELSE /\ SessionIn(modalities, last.file)
                /\ DOMAIN RunsIn(modalities, last.file) = {BaseName(last.file)}
                /\ RunsIn(modalities, last.file)[BaseName(last.file)].params
                       = CombinedMapping(last.file)
    /\ (ParsedLast /\ err = "ContentError") =>
           \E path \in StageFiles(last.file) : ~disk[path].ok
    /\ (ParsedLast /\ \A path \in StageFiles(last.file) : disk[path].ok) =>
           err # "ContentError"

\* a file was parsed with headers on, both headers exist and disagree on a
\* key, and the stored run has the compressed header's value
C11_Witness ==
    /\ include_nifti_header
    /\ ParsedLast /\ ReadSingleReturned
    /\ Beside(last.file, <<"nii">>) \in DOMAIN disk
    /\ Beside(last.file, <<"nii", "gz">>) \in DOMAIN disk
    /\ \E k \in DOMAIN disk[Beside(last.file, <<"nii">>)].params
                \cap DOMAIN disk[Beside(last.file, <<"nii", "gz">>)].params :
          /\ disk[Beside(last.file, <<"nii">>)].params[k]
                 # disk[Beside(last.file, <<"nii", "gz">>)].params[k]
          /\ RunsIn(modalities, last.file)[BaseName(last.file)].params[k]
                 = disk[Beside(last.file, <<"nii", "gz">>)].params[k]

(***************************************************************************)
(* Paths that are too shallow.                                             *)
(***************************************************************************)
\* the last call was read_single on a path with fewer than three ancestors
ShallowCall == last.op = "read_single" /\ Len(last.file.dirs) < 3

\* C12: read_single on a path with fewer than three ancestor directories
\* fails with the structural error (IndexError), and the hierarchy is then
\* exactly what it was before the call: nothing attached, no Run modified.
C12_ShallowPathFailsCleanly ==
    ShallowCall => (err = "IndexError" /\ modalities = last.before)

\* the failing call was made on a hierarchy that already held a Run
C12_Witness ==
    /\ ShallowCall
    /\ err = "IndexError"
    /\ \E file \in DOMAIN disk : HasRun(last.before, file)

(***************************************************************************)
(* Growth.                                                                 *)
(***************************************************************************)
\* every node of hierarchy a is, under the same names, a node of hierarchy
\* b, and every Run of a has all its params keys in b
Within(a, b) ==
    \A m \in DOMAIN a :
        /\ m \in DOMAIN b
        /\ \A s \in DOMAIN a[m].subjects :
            /\ s \in DOMAIN b[m].subjects
            /\ \A e \in DOMAIN a[m].subjects[s].sessions :
                /\ e \in DOMAIN b[m].subjects[s].sessions
                /\ \A r \in DOMAIN a[m].subjects[s].sessions[e].runs :
                    /\ r \in DOMAIN b[m].subjects[s].sessions[e].runs
                    /\ DOMAIN a[m].subjects[s].sessions[e].runs[r].params
                         \subseteq
                       DOMAIN b[m].subjects[s].sessions[e].runs[r].params

\* C13: across every read_single of a walk the hierarchy only grows: each
\* Modality, Subject, Session and Run attached before the step is attached
\* under the same parent after it, and no Run has lost a params key.
C13_MonotonicGrowth ==
    last.op = "read_single" => Within(last.before, modalities)

\* a step of a walk attached something to a hierarchy that already held a Run
C13_Witness ==
    /\ ReadSingleReturned
    /\ pc = "walking"
    /\ \E file \in DOMAIN disk : HasRun(last.before, file)
    /\ modalities # last.before

(***************************************************************************)
(* The add_* invocations of one call (fastbids.py 73-82, 117-124): which   *)
(* add it is, whether the parent already had a child of the node's name,   *)
(* and whether the node passed was constructed in this call rather than    *)
(* returned by the lookup.                                                 *)
(***************************************************************************)
AddCall(op, present, fresh) == [op |-> op, present |-> present, fresh |-> fresh]

\* line 124, reached when the extraction is non-empty
ParseAddCalls(session_node, filepath) ==
    IF params_from_file(filepath) # EmptyMap
    THEN {AddCall("add_run",
                  HasChild(session_node.runs, Stem(filepath.name)),
                  RunIsNew(session_node, Stem(filepath.name)))}
    ELSE {}

\* lines 76-82 of a read_single that does not raise
ReadSingleAddCalls(mods, file) ==
    IF ReadSingleRaises(mods, file) # "none" THEN {}
    ELSE
    LET datatype == ModalityOf(file)
        modFound == HasChild(mods, datatype)
        modality_obj == IF modFound THEN mods[datatype] ELSE Modality(datatype)
        nSub == SubjectOf(file)
        subFound == HasChild(modality_obj.subjects, nSub)
        subject_obj == IF subFound THEN modality_obj.subjects[nSub] ELSE Subject(nSub)
        nSess == SessionOf(file)
        sessNew == SessionIsNew(subject_obj, nSess)
        session_node == parse(Session(nSess), file)
        subject1 == CommitSession(subject_obj, session_node)
        modality1 == IF sessNew
                     THEN CommitSubject([modality_obj EXCEPT
                            !.subjects = WriteBack(@, subFound, subject1)],
                            subject1)
                     ELSE modality_obj
    IN (IF sessNew THEN ParseAddCalls(Session(nSess), file) ELSE {})
       \cup (IF sessNew /\ session_node.runs # EmptyMap
             THEN {AddCall("add_session",
                           HasChild(subject_obj.sessions, nSess), TRUE)}
             ELSE {})
       \cup (IF sessNew /\ subject1.sessions # EmptyMap
             THEN {AddCall("add_subject",
                           HasChild(modality_obj.subjects, nSub), ~subFound)}
             ELSE {})
       \cup (IF modality1.subjects # EmptyMap
             THEN {AddCall("add_modality", HasChild(mods, datatype), ~modFound)}
             ELSE {})

\* the add_* invocations of the last call made
LastAddCalls ==
    IF last.op = "read_single" THEN ReadSingleAddCalls(last.before, last.file)
    ELSE IF last.op = "parse" /\ err = "none"
         THEN ParseAddCalls(SessionAt(last.before, last.file), last.file)
         ELSE {}

(***************************************************************************)
(* Names under one parent.                                                 *)
(***************************************************************************)
\* no two distinct children of one parent have the same name
Unique(children) ==
    \A j, k \in DOMAIN children :
        children[j].name = children[k].name => children[j] = children[k] /\ j = k

UniqueNames(mods) ==
    /\ Unique(mods)
    /\ \A m \in DOMAIN mods :
        /\ Unique(mods[m].subjects)
        /\ \A s \in DOMAIN mods[m].subjects :
            /\ Unique(mods[m].subjects[s].sessions)
            /\ \A e \in DOMAIN mods[m].subjects[s].sessions :
                 Unique(mods[m].subjects[s].sessions[e].runs)

\* C14: after any sequence of read_single (and parse) calls no parent holds
\* two distinct children of one name, and every add_modality, add_subject,
\* add_session or add_run made with a name the parent already had was given
\* the node the lookup returned, never one constructed in that call.
C14_NameUniqueness ==
    /\ UniqueNames(modalities)
    /\ \A c \in LastAddCalls : c.present => ~c.fresh

\* a read_single re-added a stored node to its parent, and the hierarchy now
\* has more than one child under some parent
C14_Witness ==
    /\ last.op = "read_single"
    /\ \E c \in LastAddCalls : c.present /\ ~c.fresh
    /\ modalities # last.before

(***************************************************************************)
(* walk under every enumeration order (fastbids.py 55-60).                 *)
(***************************************************************************)
RECURSIVE WalkFrom(_, _)
\* what walk can end with when it has the hierarchy mods and the files left
\* to enumerate, files_under_folder yielding them in any order
WalkFrom(mods, files) ==
    IF files = {}
    THEN {[err |-> WalkError(mods), modalities |-> mods]}
    ELSE UNION { IF ~Accepted(f)
                 THEN WalkFrom(mods, files \ {f})
                 ELSE IF read_single(mods, f).err = "none"
                      THEN WalkFrom(read_single(mods, f).modalities, files \ {f})
                      ELSE {read_single(mods, f)}
                 : f \in files }

\* the outcomes of walk on a newly constructed object
WalkOutcomes == WalkFrom(EmptyMap, files_under_folder)

\* no two accepted files of the tree imply the same
\* (modality, subject, session, run base name)
OneFilePerRun ==
    \A f, g \in files_under_folder :
        (/\ f # g
         /\ Accepted(f) /\ Accepted(g)
         /\ Len(f.dirs) >= 3 /\ Len(g.dirs) >= 3) => ~SameRun(f, g)

\* C15: when no two accepted files imply the same Run, the hierarchy a walk
\* returns (its Modality, Subject, Session and Run nodes, and every Run's
\* params and echo_time) is the hierarchy the walk returns under every
\* other enumeration order of the same files.
C15_OrderIndependence ==
    (FirstWalkOver /\ pc = "returned" /\ OneFilePerRun) =>
        \A o \in WalkOutcomes : o.err = "none" => o.modalities = modalities
====
